---------------------------- MODULE Spec2Model ----------------------------
(***************************************************************************)
(* roboplc-rpc: the JSON-RPC message model, the server dispatcher          *)
(* (RpcServer::handle_request / handle_request_payload) and the client     *)
(* correlator (RpcClient::request / request0, RpcClientRequest::           *)
(* handle_response), in the std build, for both settings of the            *)
(* canonical feature.                                                    *)
(*                                                                         *)
(* A payload is an abstract document: what a codec (dataformat::Json,      *)
(* dataformat::Msgpack) sees after tokenising the bytes.  Its keys are     *)
(* taken in the order jsonrpc, id, i, <method fields>, result, error,      *)
(* <any other key>, which fixes which decode error is met first.           *)
(*                                                                         *)
(* Three specifications share the state:                                   *)
(*   Spec        one caller at a time uses the client, the dispatcher and  *)
(*               the pending calls, as examples/client-server.rs does      *)
(*   SpecClient  several callers are inside RpcClient::request at once,    *)
(*               on a new client or on one that has served many calls, so  *)
(*               that the counter is driven across 2^32                    *)
(*   SpecKinds   the conversions between RpcErrorKind and i16              *)
(***************************************************************************)
EXTENDS Integers, Sequences, FiniteSets, TLC

VARIABLES
    canonical,    \* the canonical cargo feature of the build
    request_id,   \* RpcClient::request_id (AtomicU32)
    pending,      \* the RpcClientRequest objects handed out, oldest first
    inflight,     \* per caller: the identifier a request() call holds between
                  \* its fetch_add and its D::pack
    issued,       \* history: what fetch_add returned, in the order of the adds
    last          \* the most recent operation: its inputs and what it returned

vars == <<canonical, request_id, pending, inflight, issued, last>>

---------------------------------------------------------------------------
(* Bounds of the model *)

\* number of RpcClientRequest objects kept
MaxCalls == 2
\* numeric identifiers 0..MaxIdNum occur in payloads
MaxIdNum == 1
\* number of callers that share one RpcClient
MaxCallers == 2
\* a client that has served calls before has served more than ShortRun
ShortRun == 1000
\* custom codes this far below and above the reserved range are drawn
CodeMargin == 2

---------------------------------------------------------------------------
(* lib.rs: constants *)

JSONRPC_VERSION == "2.0"
ERR_INVALID_PROTOCOL_VERSION == "Invalid protocol version"

RPC_ERROR_PARSE_ERROR == -32700
RPC_ERROR_INVALID_REQUEST == -32600
RPC_ERROR_METHOD_NOT_FOUND == -32601
RPC_ERROR_INVALID_PARAMS == -32602
RPC_ERROR_INTERNAL_ERROR == -32603

\* u32: the model checker's integers are narrower than 2^32, so a u32 is kept
\* as two 16-bit limbs, hi * 2^16 + lo
Limb == 2 ^ 16
U32(hi, lo) == [hi |-> hi, lo |-> lo]
U32Small(k) == U32(0, k)
\* an add that stops at u32::MAX instead of wrapping
WrappingInc_saturating(u) ==
    IF u.lo + 1 < Limb THEN U32(u.hi, u.lo + 1)
    ELSE IF u.hi + 1 < Limb THEN U32(u.hi + 1, 0)
    ELSE u

\* AtomicU32::fetch_add(1): the stored value after the add, wrapping at 2^32
WrappingInc(u) ==
    IF u.lo + 1 < Limb THEN U32(u.hi, u.lo + 1)
    ELSE U32((u.hi + 1) % Limb, 0)

\* a load in place of the read-modify-write: nothing is stored
fetch_add_no_store(u) == [prev |-> u, next |-> u]

\* AtomicU32::fetch_add(1, SeqCst): one indivisible step that returns the
\* previous value and stores the incremented one
fetch_add(u) == [prev |-> u, next |-> WrappingInc(u)]

\* 2^32 - 2, a number of calls that leaves two identifiers before the wrap
DroppedRun == U32(Limb - 1, Limb - 2)

\* i16 range
I16Min == -(2 ^ 15)
I16Max == (2 ^ 15) - 1

\* VERSION_HEADER: Some(()) in a canonical build, None otherwise
VERSION_HEADER(cn) == cn

---------------------------------------------------------------------------
(* Option<String> *)

NoneStr == [some |-> FALSE, s |-> ""]
SomeStr(s) == [some |-> TRUE, s |-> s]

(* Id = serde_json::Value, and Option<Id>.  "absent" is a key that is not  *)
(* in the document; "none" is Option::None.                                *)
AbsentId == [t |-> "absent", n |-> U32Small(0), s |-> ""]
NoneId == [t |-> "none", n |-> U32Small(0), s |-> ""]
NullId == [t |-> "null", n |-> U32Small(0), s |-> ""]
\* a JSON number that is an unsigned integer below 2^32 (From<u32> for Value)
NumId(n) == [t |-> "num", n |-> n, s |-> ""]
StrId(s) == [t |-> "str", n |-> U32Small(0), s |-> s]

\* serde_json: impl PartialEq<u32> for Value (a non-negative integer equal to it)
ValueEqU32(v, n) == v.t = "num" /\ v.n = n

---------------------------------------------------------------------------
(* lib.rs: RpcErrorKind and its i16 code *)

Kind(k) == [k |-> k, c |-> 0]
Custom(c) == [k |-> "Custom", c |-> c]

ReservedKinds ==
    {Kind("ParseError"), Kind("InvalidRequest"), Kind("MethodNotFound"),
     Kind("InvalidParams"), Kind("InternalError")}

\* From<i16> with the arms of MethodNotFound and InvalidParams exchanged
KindFromI16_arms_exchanged(code) ==
    CASE code = RPC_ERROR_PARSE_ERROR -> Kind("ParseError")
      [] code = RPC_ERROR_INVALID_REQUEST -> Kind("InvalidRequest")
      [] code = RPC_ERROR_METHOD_NOT_FOUND -> Kind("InvalidParams")
      [] code = RPC_ERROR_INVALID_PARAMS -> Kind("MethodNotFound")
      [] code = RPC_ERROR_INTERNAL_ERROR -> Kind("InternalError")
      [] OTHER -> Custom(code)

\* impl From<i16> for RpcErrorKind
KindFromI16(code) ==
    CASE code = RPC_ERROR_PARSE_ERROR -> Kind("ParseError")
      [] code = RPC_ERROR_INVALID_REQUEST -> Kind("InvalidRequest")
      [] code = RPC_ERROR_METHOD_NOT_FOUND -> Kind("MethodNotFound")
      [] code = RPC_ERROR_INVALID_PARAMS -> Kind("InvalidParams")
      [] code = RPC_ERROR_INTERNAL_ERROR -> Kind("InternalError")
      [] OTHER -> Custom(code)

\* impl From<RpcErrorKind> for i16
KindToI16(kind) ==
    CASE kind.k = "ParseError" -> RPC_ERROR_PARSE_ERROR
      [] kind.k = "InvalidRequest" -> RPC_ERROR_INVALID_REQUEST
      [] kind.k = "MethodNotFound" -> RPC_ERROR_METHOD_NOT_FOUND
      [] kind.k = "InvalidParams" -> RPC_ERROR_INVALID_PARAMS
      [] kind.k = "InternalError" -> RPC_ERROR_INTERNAL_ERROR
      [] OTHER -> kind.c

\* struct RpcError { kind, message }
RpcError(kind, message) == [kind |-> kind, message |-> message]
NoError == RpcError(Kind("None"), NoneStr)

\* RpcResult<R> and HandlerResponse<R>: Ok(value) or Err(RpcError)
Ok(v) == [t |-> "Ok", value |-> v, err |-> NoError]
Err(e) == [t |-> "Err", value |-> "", err |-> e]

\* impl From<HandlerResponse<R>> for RpcResult<R>
ResultFromHandlerResponse(res) ==
    IF res.t = "Err" THEN Err(RpcError(res.err.kind, res.err.message))
    ELSE Ok(res.value)

---------------------------------------------------------------------------
(* Payload documents.                                                      *)
(*   shape   "object", "array" (a two-element sequence [jsonrpc, id]),     *)
(*           "garbage" (bytes the codec cannot tokenise) or "empty" (no    *)
(*           bytes)                                                        *)
(*   jsonrpc "absent", "null", "2.0", "1.0" (a string other than the       *)
(*           version), "num" (a value that is not a string or null), or    *)
(*           "2.0 escaped", "1.0 escaped": the JSON strings 2.0 and 1.0    *)
(*           written with an escape sequence, which dataformat::Json       *)
(*           cannot lend as a borrowed &str                                *)
(*   id, i   the values under the keys id and i                        *)
(*   method  the method fields of the build's Method schema: "absent",     *)
(*           "unknown" (a tag no variant has) or a method name             *)
(*   params  "ok" / "bad": whether the parameters fit the tagged variant   *)
(*   result  under the build's result key: "absent", "bad" (does not       *)
(*           decode as R) or a result value                                *)
(*   error   under the build's error key: absent, an object, or "bad"      *)
(*   extra   a key that no schema of the crate names is present            *)
(***************************************************************************)

AbsentErr == [t |-> "absent", code |-> 0, message |-> NoneStr]
BadErr == [t |-> "bad", code |-> 0, message |-> NoneStr]
ErrObj(code, message) == [t |-> "obj", code |-> code, message |-> message]

Doc(shape, jsonrpc, id, i, method, params, result, error, extra) ==
    [shape |-> shape, jsonrpc |-> jsonrpc, id |-> id, i |-> i,
     method |-> method, params |-> params, result |-> result,
     error |-> error, extra |-> extra]

Garbage ==
    Doc("garbage", "absent", AbsentId, AbsentId, "absent", "ok", "absent",
        AbsentErr, FALSE)

\* Vec::new(), what mem::take leaves behind
EmptyPayload ==
    Doc("empty", "absent", AbsentId, AbsentId, "absent", "ok", "absent",
        AbsentErr, FALSE)

\* marker values that are strings the codec has to unescape
EscapedStrings == {"2.0 escaped", "1.0 escaped"}

\* decode errors, named after the message serde gives
E_SYNTAX == "expected value"
E_EOF == "EOF while parsing a value"
E_VERSION_NOT_BORROWED == "invalid type: string, expected a borrowed string"
E_NOT_A_MAP == "invalid type: sequence, expected a map"
E_VERSION_TYPE == "invalid type, expected a borrowed string"
E_DUPLICATE_ID == "duplicate field id"
E_MISSING_ID == "missing field id"
E_MISSING_METHOD == "missing field method"
E_UNKNOWN_VARIANT == "unknown variant"
E_PARAMS == "invalid params"
E_UNKNOWN_FIELD == "unknown field"
E_NO_VARIANT == "no variant of enum HandlerResponse found in flattened data"
E_RESULT == "invalid result"
E_ERROR_OBJECT == "invalid error object"
E_PACK == "pack error"

DecodeOk(jsonrpc, id, body) ==
    [ok |-> TRUE, error |-> "", jsonrpc |-> jsonrpc, id |-> id, body |-> body]
DecodeErr(error) ==
    [ok |-> FALSE, error |-> error, jsonrpc |-> "none", id |-> NoneId, body |-> ""]

\* de_validate_version without the comparison against JSONRPC_VERSION
de_validate_version_unchecked(cn, version) ==
    IF version = "num" THEN E_VERSION_TYPE
    ELSE IF version \in EscapedStrings THEN E_VERSION_NOT_BORROWED
    ELSE ""

\* lib.rs de_validate_version: "" is success, otherwise the error text.
\* Option<&str>::deserialize comes first and fails on every value that is not
\* null or a string the codec can lend
de_validate_version(cn, version) ==
    IF version = "num" THEN E_VERSION_TYPE
    ELSE IF version \in EscapedStrings THEN E_VERSION_NOT_BORROWED
    ELSE IF cn /\ version \notin {"absent", "null"} /\ version # JSONRPC_VERSION
    THEN ERR_INVALID_PROTOCOL_VERSION
    ELSE ""

\* Option<T> field: a missing key and null both give None
DeOption(v) == IF v.t \in {"absent", "null"} THEN NoneId ELSE v

\* the keys that name the identifier: id with alias i (canonical), i alone
\* otherwise
IdKeysPresent(cn, doc) ==
    (IF cn /\ doc.id.t # "absent" THEN 1 ELSE 0) + (IF doc.i.t # "absent" THEN 1 ELSE 0)
IdField(cn, doc) == IF cn /\ doc.id.t # "absent" THEN doc.id ELSE doc.i

\* request.rs: #[derive(Deserialize)] for Request<M> (deny_unknown_fields,
\* method flattened)
UnpackRequest(cn, doc) ==
    IF doc.shape = "garbage" THEN DecodeErr(E_SYNTAX)
    ELSE IF doc.shape = "empty" THEN DecodeErr(E_EOF)
    ELSE IF doc.shape = "array" THEN DecodeErr(E_NOT_A_MAP)
    ELSE IF de_validate_version(cn, doc.jsonrpc) # ""
    THEN DecodeErr(de_validate_version(cn, doc.jsonrpc))
    ELSE IF IdKeysPresent(cn, doc) > 1 THEN DecodeErr(E_DUPLICATE_ID)
    ELSE IF doc.method = "absent" THEN DecodeErr(E_MISSING_METHOD)
    ELSE IF doc.method = "unknown" THEN DecodeErr(E_UNKNOWN_VARIANT)
    ELSE IF doc.params # "ok" THEN DecodeErr(E_PARAMS)
    ELSE IF \/ doc.extra
            \/ doc.result # "absent"
            \/ doc.error.t # "absent"
            \/ ~cn /\ doc.id.t # "absent"
    THEN DecodeErr(E_UNKNOWN_FIELD)
    ELSE DecodeOk(IF doc.jsonrpc \in {"absent", "null"} THEN "none" ELSE "some",
                  DeOption(IdField(cn, doc)), doc.method)

\* an InvalidRequest whose identifier also answers to the alias i
UnpackInvalidRequest_alias(doc) ==
    IF doc.shape = "garbage" THEN DecodeErr(E_SYNTAX)
    ELSE IF doc.shape = "empty" THEN DecodeErr(E_EOF)
    ELSE IF doc.jsonrpc = "num" THEN DecodeErr(E_VERSION_TYPE)
    ELSE IF doc.jsonrpc \in EscapedStrings THEN DecodeErr(E_VERSION_NOT_BORROWED)
    ELSE DecodeOk(IF doc.jsonrpc \in {"absent", "null"} THEN "none" ELSE doc.jsonrpc,
                  DeOption(IF doc.id.t # "absent" THEN doc.id ELSE doc.i), "")

\* request.rs: #[derive(Deserialize)] for InvalidRequest: keys jsonrpc and
\* id only, other keys ignored, a sequence taken positionally
UnpackInvalidRequest(doc) ==
    IF doc.shape = "garbage" THEN DecodeErr(E_SYNTAX)
    ELSE IF doc.shape = "empty" THEN DecodeErr(E_EOF)
    ELSE IF doc.jsonrpc = "num" THEN DecodeErr(E_VERSION_TYPE)
    ELSE IF doc.jsonrpc \in EscapedStrings THEN DecodeErr(E_VERSION_NOT_BORROWED)
    ELSE DecodeOk(IF doc.jsonrpc \in {"absent", "null"} THEN "none" ELSE doc.jsonrpc,
                  DeOption(doc.id), "")

\* #[derive(Deserialize)] for RpcError: code is an i16
UnpackRpcError(e) ==
    IF e.t = "obj" /\ e.code >= I16Min /\ e.code <= I16Max
    THEN [ok |-> TRUE, err |-> RpcError(KindFromI16(e.code), e.message)]
    ELSE [ok |-> FALSE, err |-> NoError]

\* response.rs: #[derive(Deserialize)] for Response<R> (deny_unknown_fields,
\* handler_response flattened): the first of result / error is the variant,
\* whatever is left over is an unknown field
UnpackResponse(cn, doc) ==
    IF doc.shape = "garbage" THEN DecodeErr(E_SYNTAX)
    ELSE IF doc.shape = "empty" THEN DecodeErr(E_EOF)
    ELSE IF doc.shape = "array" THEN DecodeErr(E_NOT_A_MAP)
    ELSE IF de_validate_version(cn, doc.jsonrpc) # ""
    THEN DecodeErr(de_validate_version(cn, doc.jsonrpc))
    ELSE IF IdKeysPresent(cn, doc) > 1 THEN DecodeErr(E_DUPLICATE_ID)
    ELSE IF IdKeysPresent(cn, doc) = 0 THEN DecodeErr(E_MISSING_ID)
    ELSE IF doc.result = "absent" /\ doc.error.t = "absent" THEN DecodeErr(E_NO_VARIANT)
    ELSE IF doc.result = "bad" THEN DecodeErr(E_RESULT)
    ELSE IF doc.result = "absent" /\ ~UnpackRpcError(doc.error).ok
    THEN DecodeErr(E_ERROR_OBJECT)
    ELSE IF \/ doc.extra
            \/ doc.result # "absent" /\ doc.error.t # "absent"
            \/ doc.method # "absent"
            \/ ~cn /\ doc.id.t # "absent"
    THEN DecodeErr(E_UNKNOWN_FIELD)
    ELSE DecodeOk(IF doc.jsonrpc \in {"absent", "null"} THEN "none" ELSE "some",
                  IdField(cn, doc),
                  IF doc.result # "absent" THEN Ok(doc.result)
                  ELSE Err(UnpackRpcError(doc.error).err))

---------------------------------------------------------------------------
(* Requests and responses *)

\* Request { jsonrpc: VERSION_HEADER, id, method }
Request(id, method) == [id |-> id, method |-> method]
\* request.rs Request::new0
Request_new0(method) == Request(NoneId, method)
\* request.rs Request::new
Request_new(id, method) == Request(id, method)

\* Option<Response<R>>
NoResponse == [some |-> FALSE, id |-> NoneId, handler_response |-> Ok("")]
\* from_handler_response that loses the identifier
from_handler_response_null_id(id, handler_response) ==
    [some |-> TRUE, id |-> NullId, handler_response |-> handler_response]

\* response.rs Response::from_handler_response
from_handler_response(id, handler_response) ==
    [some |-> TRUE, id |-> id, handler_response |-> handler_response]
\* response.rs Response::from_server_error
from_server_error(id, error) ==
    [some |-> TRUE, id |-> id,
     handler_response |-> Err(RpcError(Kind("InternalError"), SomeStr(error)))]

\* Option<Vec<u8>>
NoPayload == [some |-> FALSE, doc |-> Garbage]
SomePayload(doc) == [some |-> TRUE, doc |-> doc]

\* serialize_version with skip_serializing_if: the marker is written as
\* JSONRPC_VERSION exactly when the field is Some
PackVersion(cn) == IF VERSION_HEADER(cn) THEN JSONRPC_VERSION ELSE "absent"

\* a Serialize for Response<R> that leaves the error message out
PackResponse_drops_message(cn, response) ==
    Doc("object", PackVersion(cn),
        IF cn THEN response.id ELSE AbsentId,
        IF cn THEN AbsentId ELSE response.id,
        "absent", "ok",
        IF response.handler_response.t = "Ok"
        THEN response.handler_response.value ELSE "absent",
        IF response.handler_response.t = "Err"
        THEN ErrObj(KindToI16(response.handler_response.err.kind), NoneStr)
        ELSE AbsentErr,
        FALSE)

\* #[derive(Serialize)] for Response<R>: the identifier goes under id
\* (canonical) or i, the outcome under the result or the error key, the error
\* kind as its i16 code
PackResponse(cn, response) ==
    Doc("object", PackVersion(cn),
        IF cn THEN response.id ELSE AbsentId,
        IF cn THEN AbsentId ELSE response.id,
        "absent", "ok",
        IF response.handler_response.t = "Ok"
        THEN response.handler_response.value ELSE "absent",
        IF response.handler_response.t = "Err"
        THEN ErrObj(KindToI16(response.handler_response.err.kind),
                    response.handler_response.err.message)
        ELSE AbsentErr,
        FALSE)

\* #[derive(Serialize)] for Request<M>: an identifier that is None is skipped
PackRequest(cn, request) ==
    Doc("object", PackVersion(cn),
        IF cn /\ request.id # NoneId THEN request.id ELSE AbsentId,
        IF ~cn /\ request.id # NoneId THEN request.id ELSE AbsentId,
        request.method, "ok", "absent", AbsentErr, FALSE)

---------------------------------------------------------------------------
(* server.rs *)

\* handle_request that answers whether or not the request has an identifier
handle_request_always_answers(request, hres) ==
    [some |-> TRUE, id |-> request.id,
     handler_response |-> IF hres.t = "Ok" THEN Ok(hres.value)
                          ELSE Err(RpcError(hres.err.kind, hres.err.message))]

\* handle_request that reports every handler error as an InternalError
handle_request_rewrites_error(request, hres) ==
    LET result == IF hres.t = "Ok" THEN Ok(hres.value)
                  ELSE Err(RpcError(Kind("InternalError"), hres.err.message))
    IN  IF request.id # NoneId
        THEN [some |-> TRUE, id |-> request.id, handler_response |-> result]
        ELSE NoResponse

\* RpcServer::handle_request: the handler is called with the method and
\* returns hres; the response exists only for a request with an identifier
handle_request(request, hres) ==
    LET result == IF hres.t = "Ok" THEN Ok(hres.value)
                  ELSE Err(RpcError(hres.err.kind, hres.err.message))
    IN  IF request.id # NoneId THEN from_handler_response(request.id, result)
        ELSE NoResponse

\* serialize_response! that gives up at the first failing D::pack
serialize_response_gives_up(cn, response, fault) ==
    IF fault = 0 THEN SomePayload(PackResponse(cn, response)) ELSE NoPayload

\* the macro serialize_response!: fault is the number of D::pack calls of
\* this invocation that fail, each with the text E_PACK
serialize_response(cn, response, fault) ==
    IF fault = 0 THEN SomePayload(PackResponse(cn, response))
    ELSE IF fault = 1
    THEN SomePayload(PackResponse(cn, from_server_error(response.id, E_PACK)))
    ELSE NoPayload

\* into_response with the two kinds of the version test exchanged
into_response_kinds_swapped(cn, invalid, error) ==
    IF invalid.id # NoneId
    THEN LET matches == invalid.jsonrpc = JSONRPC_VERSION
             code == IF cn /\ matches THEN Kind("InvalidRequest")
                     ELSE Kind("MethodNotFound")
             message == IF cn /\ matches THEN SomeStr(ERR_INVALID_PROTOCOL_VERSION)
                        ELSE SomeStr(error)
         IN  [some |-> TRUE, id |-> invalid.id,
              handler_response |-> Err(RpcError(code, message))]
    ELSE NoResponse

\* into_response that treats a missing marker like a matching one
into_response_absent_as_match(cn, invalid, error) ==
    IF invalid.id # NoneId
    THEN LET mismatch == cn /\ invalid.jsonrpc \notin {"none", JSONRPC_VERSION}
             code == IF mismatch THEN Kind("InvalidRequest") ELSE Kind("MethodNotFound")
             message == IF mismatch THEN SomeStr(ERR_INVALID_PROTOCOL_VERSION)
                        ELSE SomeStr(error)
         IN  [some |-> TRUE, id |-> invalid.id,
              handler_response |-> Err(RpcError(code, message))]
    ELSE NoResponse

\* request.rs InvalidRequest::into_response
into_response(cn, invalid, error) ==
    IF invalid.id # NoneId
    THEN LET code == IF cn
                     THEN IF invalid.jsonrpc # "none"
                          THEN IF invalid.jsonrpc = JSONRPC_VERSION
                               THEN Kind("MethodNotFound")
                               ELSE Kind("InvalidRequest")
                          ELSE Kind("InvalidRequest")
                     ELSE Kind("MethodNotFound")
             message == IF cn
                        THEN IF invalid.jsonrpc # "none"
                             THEN IF invalid.jsonrpc = JSONRPC_VERSION
                                  THEN SomeStr(error)
                                  ELSE SomeStr(ERR_INVALID_PROTOCOL_VERSION)
                             ELSE NoneStr
                        ELSE SomeStr(error)
         IN  from_handler_response(invalid.id, Err(RpcError(code, message)))
    ELSE NoResponse

\* a dispatcher that skips the handler for a request without identifier
handle_call_invocations_skips_notification(request) ==
    IF request.id # NoneId THEN <<request.method>> ELSE <<>>

\* RpcServer::handle_request: the handler calls it makes, with their
\* arguments: self.handler.handle_call(request.method), once, before the
\* identifier is looked at
handle_call_invocations(request) == <<request.method>>

\* RpcServer::handle_request_payload: what one invocation does and returns.
\*   request   the result of D::unpack::<Request<M>>
\*   calls     the methods the handler was called with, in order
\*   response  the response handed to serialize_response!, if any
\*   out       the returned Option<Vec<u8>>
handle_request_payload(cn, payload, hres, fault) ==
    LET req == UnpackRequest(cn, payload)
        invalid == UnpackInvalidRequest(payload)
        response == IF req.ok
                    THEN handle_request(Request(req.id, req.body), hres)
                    ELSE IF invalid.ok
                    THEN into_response(cn, invalid, req.error)
                    ELSE NoResponse
    IN  [request |-> req,
         calls |-> IF req.ok THEN handle_call_invocations(Request(req.id, req.body))
                   ELSE <<>>,
         response |-> response,
         out |-> IF response.some THEN serialize_response(cn, response, fault)
                 ELSE NoPayload]

---------------------------------------------------------------------------
(* client.rs *)

ERR_NO_ID == "request ID is missing"
ERR_ID_MISMATCH == "response ID does not match request ID"

\* Option<u32>
NoneU32 == [some |-> FALSE, n |-> U32Small(0)]
SomeU32(n) == [some |-> TRUE, n |-> n]

\* RpcClientRequest::new
RpcClientRequest(id, payload) == [id |-> id, payload |-> payload]

\* RpcClientRequest::take_payload: mem::take of the payload; the identifier
\* stays
take_payload(call) ==
    [call |-> RpcClientRequest(call.id, EmptyPayload), returned |-> call.payload]

\* handle_response without the comparison of identifiers
handle_response_no_id_check(cn, call, response_payload) ==
    IF ~call.id.some
    THEN Err(RpcError(Kind("InvalidRequest"), SomeStr(ERR_NO_ID)))
    ELSE LET r == UnpackResponse(cn, response_payload)
         IN  IF r.ok THEN ResultFromHandlerResponse(r.body)
             ELSE Err(RpcError(Kind("ParseError"), SomeStr(r.error)))

\* handle_response that decodes before it looks at its own identifier
handle_response_decode_first(cn, call, response_payload) ==
    LET r == UnpackResponse(cn, response_payload)
    IN  IF ~r.ok THEN Err(RpcError(Kind("ParseError"), SomeStr(r.error)))
        ELSE IF ~call.id.some
        THEN Err(RpcError(Kind("InvalidRequest"), SomeStr(ERR_NO_ID)))
        ELSE IF ~ValueEqU32(r.id, call.id.n)
        THEN Err(RpcError(Kind("InvalidRequest"), SomeStr(ERR_ID_MISMATCH)))
        ELSE ResultFromHandlerResponse(r.body)

\* handle_response that reports a decode failure without the codec's text
handle_response_drops_text(cn, call, response_payload) ==
    IF ~call.id.some
    THEN Err(RpcError(Kind("InvalidRequest"), SomeStr(ERR_NO_ID)))
    ELSE LET r == UnpackResponse(cn, response_payload)
         IN  IF r.ok
             THEN IF ~ValueEqU32(r.id, call.id.n)
                  THEN Err(RpcError(Kind("InvalidRequest"), SomeStr(ERR_ID_MISMATCH)))
                  ELSE ResultFromHandlerResponse(r.body)
             ELSE Err(RpcError(Kind("ParseError"), NoneStr))

\* RpcClientRequest::handle_response
handle_response(cn, call, response_payload) ==
    IF ~call.id.some
    THEN Err(RpcError(Kind("InvalidRequest"), SomeStr(ERR_NO_ID)))
    ELSE LET r == UnpackResponse(cn, response_payload)
         IN  IF r.ok
             THEN IF ~ValueEqU32(r.id, call.id.n)
                  THEN Err(RpcError(Kind("InvalidRequest"), SomeStr(ERR_ID_MISMATCH)))
                  ELSE ResultFromHandlerResponse(r.body)
             ELSE Err(RpcError(Kind("ParseError"), SomeStr(r.error)))

---------------------------------------------------------------------------
(* Inputs *)

Versions == {"absent", "null", "2.0", "1.0", "num"} \cup EscapedStrings
NumIds == {NumId(U32Small(n)) : n \in 0..MaxIdNum}
IdValues == {NullId, StrId("a")} \cup NumIds
Methods == {"test"}
ResultValues == {"v1", "v2"}
Messages == {NoneStr, SomeStr("X")}

\* what the handler may return: a value, or an error of a reserved kind, of a
\* custom kind, or of a custom kind whose code is a reserved one
HandlerResults ==
    {Ok(v) : v \in ResultValues}
    \cup {Err(RpcError(k, m)) :
            k \in {Kind("InvalidParams"), Custom(-32000), Custom(RPC_ERROR_INTERNAL_ERROR)},
            m \in Messages}

\* error kinds to convert: the reserved ones, and Custom of the codes at the
\* ends of i16, around zero, and in and around the reserved range
KindCodes ==
    {I16Min, -1, 0, 1, I16Max}
    \cup ((RPC_ERROR_PARSE_ERROR - CodeMargin)..(RPC_ERROR_INVALID_REQUEST + CodeMargin))
KindInputs == ReservedKinds \cup {Custom(c) : c \in KindCodes}

\* the values under the keys id and i of a payload: one of the keys, neither,
\* or both
IdKeys ==
    {<<id, AbsentId>> : id \in {AbsentId} \cup IdValues}
    \cup {<<AbsentId, i>> : i \in NumIds}
    \cup {<<NumId(U32Small(0)), NumId(U32Small(0))>>}

\* the marker of a payload, and whether the payload has a key no schema
\* names: such a key comes with no marker or with the marker "2.0"
Markers ==
    {<<j, FALSE>> : j \in Versions} \cup {<<j, TRUE>> : j \in {"absent", JSONRPC_VERSION}}

\* payloads offered to the server
RequestDocs ==
    {Doc("object", v[1], k[1], k[2], m, "ok", "absent", AbsentErr, v[2]) :
        v \in Markers, k \in IdKeys, m \in {"absent", "unknown"} \cup Methods}
    \cup {Doc("object", v[1], k[1], k[2], m, "bad", "absent", AbsentErr, v[2]) :
        v \in Markers, k \in IdKeys, m \in Methods}
    \cup {Doc("array", j, id, AbsentId, "absent", "ok", "absent", AbsentErr, FALSE) :
        j \in Versions \ {"absent"}, id \in IdValues}
    \cup {Garbage}

\* error objects on the wire: 40000 is outside i16
WireErrors ==
    {AbsentErr, BadErr, ErrObj(RPC_ERROR_INVALID_REQUEST, SomeStr("X")),
     ErrObj(-32000, NoneStr), ErrObj(40000, NoneStr)}

\* what a payload has under the result and the error key: one of them, or
\* neither, or both
Outcomes ==
    {<<"absent", e>> : e \in WireErrors}
    \cup {<<"bad", AbsentErr>>, <<"v1", AbsentErr>>,
          <<"v1", ErrObj(RPC_ERROR_INVALID_REQUEST, SomeStr("X"))>>}

\* payloads offered to a pending call
ResponseDocs ==
    {Doc("object", v[1], k[1], k[2], "absent", "ok", o[1], o[2], v[2]) :
        v \in Markers, k \in IdKeys, o \in Outcomes}
    \cup {Doc("array", "2.0", NumId(U32Small(0)), AbsentId, "absent", "ok", "absent", AbsentErr, FALSE)}
    \cup {Garbage}

---------------------------------------------------------------------------
(* The state machine *)

Idle == [op |-> "idle"]

Callers == 1..MaxCallers

\* a caller's local state inside request(): nothing, or the identifier and
\* the method it holds
NotInRequest == [some |-> FALSE, id |-> U32Small(0), method |-> ""]
InRequest(id, method) == [some |-> TRUE, id |-> id, method |-> method]

\* history entry: fetch_add returned id to a request() call (len is one); or
\* run is set and the entry stands for the len calls made on the client
\* before, which got the identifiers from id on
Issue(id, run, len) == [id |-> id, run |-> run, len |-> len]
Ones(h) == Cardinality({k \in DOMAIN h : ~h[k].run})

\* the numbers of request() calls a client has served before: none, a few,
\* and all but the last two or the last one before the counter wraps
EarlierCalls ==
    {U32Small(0), U32Small(ShortRun + 1), DroppedRun, U32(DroppedRun.hi, DroppedRun.lo + 1)}
\* identifiers of earlier calls that a caller may still hold
EarlierHeld == {U32Small(1), U32Small(ShortRun)}

\* the response a pending call is given came from the dispatcher, which was
\* given payload, whose handler returned hres and whose D::pack failed fault
\* times; or it came from elsewhere
NotServed == [some |-> FALSE, payload |-> Garbage, hres |-> Ok(""), fault |-> 0]
Served(payload, hres, fault) ==
    [some |-> TRUE, payload |-> payload, hres |-> hres, fault |-> fault]

\* RpcClient::new; the build fixes the canonical feature
Init ==
    /\ canonical \in BOOLEAN
    /\ request_id = U32Small(0)
    /\ pending = <<>>
    /\ inflight = [t \in Callers |-> NotInRequest]
    /\ issued = <<>>
    /\ last = Idle

\* RpcClient::request by one caller: fetch_add, then pack; a pack error
\* returns after the counter has moved
ClientRequest ==
    /\ last = Idle
    /\ Len(pending) < MaxCalls
    /\ request_id.hi = 0 /\ request_id.lo < MaxCalls
    /\ \E method \in Methods, packfails \in BOOLEAN :
          LET f == fetch_add(request_id)
              id == f.prev
              req == Request_new(NumId(id), method)
          IN  /\ request_id' = f.next
              /\ issued' = Append(issued, Issue(id, FALSE, U32Small(1)))
              /\ pending' = IF packfails THEN pending
                            ELSE Append(pending,
                                        RpcClientRequest(SomeU32(id),
                                                         PackRequest(canonical, req)))
              /\ last' = [op |-> "request", ok |-> ~packfails, id |-> id]
    /\ UNCHANGED <<canonical, inflight>>

\* RpcClient::request, first statement, by caller t while other callers are
\* inside request(): the fetch_add
RequestFetchAdd ==
    /\ Ones(issued) <= MaxCalls
    /\ \E t \in Callers, method \in Methods :
          LET f == fetch_add(request_id)
          IN  /\ ~inflight[t].some
              /\ request_id' = f.next
              /\ inflight' = [inflight EXCEPT ![t] = InRequest(f.prev, method)]
              /\ issued' = Append(issued, Issue(f.prev, FALSE, U32Small(1)))
    /\ UNCHANGED <<canonical, pending, last>>

\* RpcClient::request, the rest, by caller t: Request::new, D::pack and
\* RpcClientRequest::new with the identifier the caller holds; the caller
\* keeps the call while there is room for it
RequestPack ==
    /\ last = Idle
    /\ \E t \in Callers, packfails \in BOOLEAN :
          LET id == inflight[t].id
              req == Request_new(NumId(id), inflight[t].method)
          IN  /\ inflight[t].some
              /\ inflight' = [inflight EXCEPT ![t] = NotInRequest]
              /\ pending' = IF packfails \/ Len(pending) >= MaxCalls THEN pending
                            ELSE Append(pending,
                                        RpcClientRequest(SomeU32(id),
                                                         PackRequest(canonical, req)))
              /\ last' = [op |-> "request", ok |-> ~packfails, id |-> id]
    /\ UNCHANGED <<canonical, request_id, issued>>

\* RpcClientRequest::take_payload of the k-th pending call; the caller sends
\* the bytes it gets
TakePayload ==
    /\ \E k \in 1..Len(pending) :
          /\ pending[k].payload # EmptyPayload
          /\ pending' = [pending EXCEPT ![k] = take_payload(pending[k]).call]
    /\ UNCHANGED <<canonical, request_id, inflight, issued, last>>

\* RpcClient::request0
ClientRequest0 ==
    /\ last = Idle
    /\ Len(pending) < MaxCalls
    /\ \E method \in Methods, packfails \in BOOLEAN :
          LET req == Request_new0(method)
          IN  /\ pending' = IF packfails THEN pending
                            ELSE Append(pending,
                                        RpcClientRequest(NoneU32,
                                                         PackRequest(canonical, req)))
              /\ last' = [op |-> "request0", ok |-> ~packfails]
    /\ UNCHANGED <<canonical, request_id, inflight, issued>>

\* the handler results to draw for a payload: one when the handler is not called
HandlerChoices(cn, payload) ==
    IF UnpackRequest(cn, payload).ok THEN HandlerResults ELSE {Ok("v1")}

\* the pack faults to draw: none when nothing is packed
FaultChoices(cn, payload) ==
    IF handle_request_payload(cn, payload, Ok("v1"), 0).response.some THEN 0..2 ELSE {0}

\* RpcServer::handle_request_payload on a payload from the transport (which
\* may be the payload of a pending call), with the handler returning hres and
\* fault of the D::pack calls failing
HandleRequestPayload ==
    /\ last = Idle
    /\ \E payload \in RequestDocs \cup {pending[k].payload : k \in 1..Len(pending)} :
          \E hres \in HandlerChoices(canonical, payload),
             fault \in FaultChoices(canonical, payload) :
             LET r == handle_request_payload(canonical, payload, hres, fault)
             IN  last' = [op |-> "handle_request_payload", payload |-> payload,
                          hres |-> hres, fault |-> fault, request |-> r.request,
                          calls |-> r.calls, response |-> r.response, out |-> r.out]
    /\ UNCHANGED <<canonical, request_id, pending, inflight, issued>>

\* RpcClientRequest::handle_response of the k-th pending call (&self: the call
\* stays usable) on a payload from the transport
HandleResponse ==
    /\ last = Idle
    /\ \E k \in 1..Len(pending), response_payload \in ResponseDocs :
          last' = [op |-> "handle_response", call |-> pending[k],
                   payload |-> response_payload, served |-> NotServed,
                   result |-> handle_response(canonical, pending[k], response_payload)]
    /\ UNCHANGED <<canonical, request_id, pending, inflight, issued>>

\* RpcClientRequest::handle_response of the k-th pending call on the payload
\* that handle_request_payload has just returned
HandleReply ==
    /\ last.op = "handle_request_payload"
    /\ last.out.some
    /\ \E k \in 1..Len(pending) :
          last' = [op |-> "handle_response", call |-> pending[k],
                   payload |-> last.out.doc,
                   served |-> Served(last.payload, last.hres, last.fault),
                   result |-> handle_response(canonical, pending[k], last.out.doc)]
    /\ UNCHANGED <<canonical, request_id, pending, inflight, issued>>

\* the conversions of an error kind to its code and back, and of that code
\* to a kind and back
ConvertKind ==
    /\ last = Idle
    /\ \E kind \in KindInputs :
          last' = [op |-> "convert_kind", kind |-> kind,
                   code |-> KindToI16(kind),
                   back |-> KindFromI16(KindToI16(kind))]
    /\ UNCHANGED <<canonical, request_id, pending, inflight, issued>>

\* the caller drops what the operation returned
Return ==
    /\ last # Idle
    /\ last' = Idle
    /\ UNCHANGED <<canonical, request_id, pending, inflight, issued>>

\* one caller at a time, client and server in one process (examples/client-server.rs)
Next ==
    \/ ClientRequest
    \/ ClientRequest0
    \/ HandleRequestPayload
    \/ HandleResponse
    \/ HandleReply
    \/ TakePayload
    \/ Return

Spec == Init /\ [][Next]_vars

\* several callers on one RpcClient
NextClient ==
    \/ RequestFetchAdd
    \/ RequestPack
    \/ ClientRequest0
    \/ TakePayload
    \/ Return

\* a client in use: after RpcClient::new, earlier request() calls have been
\* made, one fetch_add each, fewer than 2^32 in all; they have returned and
\* their results are gone, except that one caller may still be inside
\* request(), after its fetch_add, holding the identifier held
InitClient ==
    /\ canonical \in BOOLEAN
    /\ pending = <<>>
    /\ last = Idle
    /\ \E earlier \in EarlierCalls :
          /\ request_id = earlier
          /\ issued = IF earlier = U32Small(0) THEN <<>>
                      ELSE <<Issue(U32Small(0), TRUE, earlier)>>
          /\ \/ inflight = [t \in Callers |-> NotInRequest]
             \/ \E t \in Callers, held \in EarlierHeld, method \in Methods :
                   /\ held.hi < earlier.hi \/ (held.hi = earlier.hi /\ held.lo < earlier.lo)
                   /\ inflight = [u \in Callers |->
                                     IF u = t THEN InRequest(held, method) ELSE NotInRequest]

SpecClient == InitClient /\ [][NextClient]_vars

\* the error kind conversions on their own
NextKinds ==
    \/ ConvertKind
    \/ Return

SpecKinds == Init /\ [][NextKinds]_vars

---------------------------------------------------------------------------
(* Properties of the server dispatcher *)

Dispatched == last.op = "handle_request_payload"

\* the payload carries a value other than null under the key id, which is the
\* identifier the recovery parse (InvalidRequest) reads
RecoverableId(payload) ==
    /\ payload.shape \notin {"garbage", "empty"}
    /\ payload.jsonrpc \notin {"num"} \cup EscapedStrings
    /\ payload.id.t \notin {"absent", "null"}

\* C1: a payload that decodes as a Request with no identifier produces no
\* response and no output, whether the handler succeeds or fails.
C1_NoIdentifierNoOutput ==
    (Dispatched /\ last.request.ok /\ last.request.id = NoneId)
        => (~last.response.some /\ ~last.out.some)

C1_Witness ==
    /\ Dispatched /\ last.request.ok /\ last.request.id = NoneId
    /\ last.calls # <<>> /\ last.hres.t = "Err"
    /\ ~last.out.some

\* C2: a decoded Request with an identifier whose handler returns Ok(v) gets a
\* response with outcome Ok(v) and the request's id; packed without a fault,
\* the output decodes back to that id and outcome.
C2_OkResponseEchoesId ==
    (Dispatched /\ last.request.ok /\ last.request.id # NoneId /\ last.hres.t = "Ok")
        => /\ last.response.some
           /\ last.response.id = last.request.id
           /\ last.response.handler_response.t = "Ok"
           /\ last.response.handler_response.value = last.hres.value
           /\ last.fault = 0 =>
                /\ last.out.some
                /\ UnpackResponse(canonical, last.out.doc).ok
                /\ UnpackResponse(canonical, last.out.doc).id = last.request.id
                /\ UnpackResponse(canonical, last.out.doc).body = Ok(last.hres.value)

C2_Witness ==
    /\ Dispatched /\ last.request.ok /\ last.request.id = NumId(U32Small(1))
    /\ last.hres = Ok("v2") /\ last.fault = 0
    /\ last.out.some /\ last.out.doc.result = "v2"

\* C3: a decoded Request with an identifier whose handler returns an RpcError
\* gets a response with the request's id whose outcome is Err with the same
\* kind and message; packed without a fault, the output carries that kind's
\* code and that message.
C3_HandlerErrorKept ==
    (Dispatched /\ last.request.ok /\ last.request.id # NoneId /\ last.hres.t = "Err")
        => /\ last.response.some
           /\ last.response.id = last.request.id
           /\ last.response.handler_response.t = "Err"
           /\ last.response.handler_response.err.kind = last.hres.err.kind
           /\ last.response.handler_response.err.message = last.hres.err.message
           /\ last.fault = 0 =>
                /\ last.out.some
                /\ last.out.doc.error.t = "obj"
                /\ last.out.doc.error.code = KindToI16(last.hres.err.kind)
                /\ last.out.doc.error.message = last.hres.err.message

C3_Witness ==
    /\ Dispatched /\ last.request.ok /\ last.request.id # NoneId
    /\ last.hres = Err(RpcError(Custom(-32000), SomeStr("X")))
    /\ last.response.handler_response = Err(RpcError(Custom(-32000), SomeStr("X")))
    /\ last.out.some /\ last.out.doc.error = ErrObj(-32000, SomeStr("X"))

\* C4: canonical build; the payload does not decode as a Request, and carries
\* an identifier and the marker "2.0": the response has that identifier and
\* kind MethodNotFound, and so has the output when packing does not fail.
C4_RecoveredMethodNotFound ==
    (/\ canonical /\ Dispatched /\ ~last.request.ok
     /\ RecoverableId(last.payload) /\ last.payload.jsonrpc = JSONRPC_VERSION)
        => /\ last.response.some
           /\ last.response.id = last.payload.id
           /\ last.response.handler_response.t = "Err"
           /\ last.response.handler_response.err.kind = Kind("MethodNotFound")
           /\ last.fault = 0 =>
                /\ last.out.some
                /\ last.out.doc.id = last.payload.id
                /\ last.out.doc.error.t = "obj"
                /\ last.out.doc.error.code = RPC_ERROR_METHOD_NOT_FOUND

C4_Witness ==
    /\ canonical /\ Dispatched /\ ~last.request.ok
    /\ last.payload.shape = "object" /\ last.payload.jsonrpc = JSONRPC_VERSION
    /\ last.payload.id = StrId("a") /\ last.payload.method = "unknown"
    /\ last.fault = 0 /\ last.out.some
    /\ last.out.doc.error.code = RPC_ERROR_METHOD_NOT_FOUND

\* C5: canonical build; the payload carries an identifier and a marker that
\* is a string other than "2.0" (the rest may be a valid request): the handler
\* is not called, and the response has that identifier, kind InvalidRequest and
\* the message ERR_INVALID_PROTOCOL_VERSION, whatever the decode error was.
C5_WrongVersionInvalidRequest ==
    (/\ canonical /\ Dispatched
     /\ RecoverableId(last.payload)
     /\ last.payload.jsonrpc \notin {"absent", "null", JSONRPC_VERSION})
        => /\ last.calls = <<>>
           /\ last.response.some
           /\ last.response.id = last.payload.id
           /\ last.response.handler_response
                = Err(RpcError(Kind("InvalidRequest"), SomeStr(ERR_INVALID_PROTOCOL_VERSION)))
           /\ last.fault = 0 =>
                /\ last.out.some
                /\ last.out.doc.id = last.payload.id
                /\ last.out.doc.error
                     = ErrObj(RPC_ERROR_INVALID_REQUEST, SomeStr(ERR_INVALID_PROTOCOL_VERSION))

\* an otherwise valid request with the marker "1.0"
C5_Witness ==
    /\ canonical /\ Dispatched
    /\ last.payload
         = Doc("object", "1.0", NumId(U32Small(0)), AbsentId, "test", "ok", "absent",
               AbsentErr, FALSE)
    /\ last.fault = 0 /\ last.out.some
    /\ last.out.doc.error.code = RPC_ERROR_INVALID_REQUEST

\* C6 as stated, for either build: the payload does not decode as a Request,
\* carries an identifier and no marker: the response has that identifier,
\* kind InvalidRequest and no message.
C6_AbsentMarkerAnyBuild ==
    (/\ Dispatched /\ ~last.request.ok
     /\ RecoverableId(last.payload) /\ last.payload.jsonrpc = "absent")
        => /\ last.response.some
           /\ last.response.id = last.payload.id
           /\ last.response.handler_response
                = Err(RpcError(Kind("InvalidRequest"), NoneStr))

\* C6, amended: in a canonical build, a payload that does not decode as a
\* Request, carries an identifier and no marker gets a response with that
\* identifier, kind InvalidRequest and no message, and so has the output when
\* packing does not fail.
C6_AbsentMarkerCanonical ==
    (/\ canonical /\ Dispatched /\ ~last.request.ok
     /\ RecoverableId(last.payload) /\ last.payload.jsonrpc = "absent")
        => /\ last.response.some
           /\ last.response.id = last.payload.id
           /\ last.response.handler_response
                = Err(RpcError(Kind("InvalidRequest"), NoneStr))
           /\ last.fault = 0 =>
                /\ last.out.some
                /\ last.out.doc.id = last.payload.id
                /\ last.out.doc.error = ErrObj(RPC_ERROR_INVALID_REQUEST, NoneStr)

C6_Witness ==
    /\ canonical /\ Dispatched /\ ~last.request.ok
    /\ last.payload.shape = "object" /\ last.payload.jsonrpc = "absent"
    /\ last.payload.id = NumId(U32Small(1)) /\ last.payload.params = "bad"
    /\ last.fault = 0 /\ last.out.some
    /\ last.out.doc.error = ErrObj(RPC_ERROR_INVALID_REQUEST, NoneStr)

\* C7: a payload that does not decode as a Request, and that the recovery
\* parse cannot decode or that has no (or a null) value under the key id,
\* produces no response and no output.
C7_NoRecoverableIdNoOutput ==
    (Dispatched /\ ~last.request.ok /\ ~RecoverableId(last.payload))
        => (~last.response.some /\ ~last.out.some)

\* the recovery parse succeeds and finds no identifier
C7_Witness ==
    /\ Dispatched /\ ~last.request.ok
    /\ last.payload.shape = "object" /\ last.payload.jsonrpc = JSONRPC_VERSION
    /\ last.payload.id = AbsentId /\ last.payload.method = "unknown"
    /\ ~last.out.some

---------------------------------------------------------------------------
(* Properties of the client correlator *)

Resolved == last.op = "handle_response"

\* serde_json's comparison of the decoded identifier with the call's u32
SameId(value, n) == value.t = "num" /\ value.n = n

\* C8 as stated: the message is "response id does not match request id".
C8_MismatchMessageAsStated ==
    (/\ Resolved /\ last.call.id.some
     /\ UnpackResponse(canonical, last.payload).ok
     /\ ~SameId(UnpackResponse(canonical, last.payload).id, last.call.id.n))
        => last.result = Err(RpcError(Kind("InvalidRequest"),
                                      SomeStr("response id does not match request id")))

\* C8, amended: for a pending call with an identifier and a decodable response
\* whose id differs from it, handle_response fails with kind InvalidRequest and
\* the message "response ID does not match request ID", whether the outcome
\* is Ok or Err; the outcome is not returned.
C8_MismatchRejected ==
    (/\ Resolved /\ last.call.id.some
     /\ UnpackResponse(canonical, last.payload).ok
     /\ ~SameId(UnpackResponse(canonical, last.payload).id, last.call.id.n))
        => last.result = Err(RpcError(Kind("InvalidRequest"),
                                      SomeStr("response ID does not match request ID")))

C8_Witness ==
    /\ Resolved /\ last.call.id = SomeU32(U32Small(0))
    /\ UnpackResponse(canonical, last.payload).ok
    /\ UnpackResponse(canonical, last.payload).id = NumId(U32Small(1))
    /\ UnpackResponse(canonical, last.payload).body = Ok("v1")
    /\ last.result.t = "Err" /\ last.result.err.kind = Kind("InvalidRequest")

\* C9 as stated: the message is "no identifier".
C9_NoIdMessageAsStated ==
    (Resolved /\ ~last.call.id.some)
        => last.result = Err(RpcError(Kind("InvalidRequest"), SomeStr("no identifier")))

\* C9, amended: a call made by request0 has no identifier, and handle_response
\* of a call without identifier fails with kind InvalidRequest and the message
\* "request ID is missing" for every input.
C9_Request0NeverResolves ==
    /\ (last.op = "request0" /\ last.ok) => ~pending[Len(pending)].id.some
    /\ (Resolved /\ ~last.call.id.some)
          => last.result = Err(RpcError(Kind("InvalidRequest"),
                                        SomeStr("request ID is missing")))

\* a call without identifier is given bytes that do not decode
C9_Witness ==
    /\ Resolved /\ ~last.call.id.some
    /\ last.call.payload = PackRequest(canonical, Request_new0("test"))
    /\ last.payload = Garbage
    /\ last.result.err.kind = Kind("InvalidRequest")

\* C10: for a pending call with an identifier, bytes that do not decode as a
\* Response make handle_response fail with kind ParseError and the codec's
\* error text; in a canonical build a response with a marker other than "2.0"
\* is such a payload, whatever its id.
C10_DecodeFailureIsParseError ==
    /\ (Resolved /\ last.call.id.some /\ ~UnpackResponse(canonical, last.payload).ok)
          => last.result = Err(RpcError(Kind("ParseError"),
                                        SomeStr(UnpackResponse(canonical, last.payload).error)))
    /\ (/\ Resolved /\ last.call.id.some /\ canonical
        /\ last.payload.shape = "object" /\ last.payload.jsonrpc = "1.0")
          => last.result = Err(RpcError(Kind("ParseError"),
                                        SomeStr(ERR_INVALID_PROTOCOL_VERSION)))
    /\ (Resolved /\ last.call.id.some /\ last.payload = Garbage)
          => last.result = Err(RpcError(Kind("ParseError"), SomeStr(E_SYNTAX)))

\* an otherwise valid response with the marker "1.0" and another call's id
C10_Witness ==
    /\ Resolved /\ canonical /\ last.call.id = SomeU32(U32Small(0))
    /\ last.payload
         = Doc("object", "1.0", NumId(U32Small(1)), AbsentId, "absent", "ok", "v1",
               AbsentErr, FALSE)
    /\ last.result.err.kind = Kind("ParseError")

---------------------------------------------------------------------------
(* Properties of the client counter *)

\* the number of request() calls in a history, in limbs and without
\* reduction
RECURSIVE HiSum(_)
HiSum(h) == IF h = <<>> THEN 0 ELSE Head(h).len.hi + HiSum(Tail(h))
RECURSIVE LoSum(_)
LoSum(h) == IF h = <<>> THEN 0 ELSE Head(h).len.lo + LoSum(Tail(h))
Total(h) == [hi |-> HiSum(h) + (LoSum(h) \div Limb), lo |-> LoSum(h) % Limb]
\* that number modulo 2^32
CounterAfter(h) == U32(Total(h).hi % Limb, Total(h).lo)

\* fewer than 2^32 request() calls have been made
BelowWrap(h) == Total(h).hi < Limb

Le(a, b) == a.hi < b.hi \/ (a.hi = b.hi /\ a.lo <= b.lo)
\* the identifiers a history entry stands for: the e.len identifiers from
\* e.id on (read without wrapping)
Covers(e, x) ==
    /\ Le(e.id, x)
    /\ ~Le([hi |-> e.id.hi + e.len.hi + ((e.id.lo + e.len.lo) \div Limb),
            lo |-> (e.id.lo + e.len.lo) % Limb], x)

\* C11: with several callers inside request() at once, as long as fewer than
\* 2^32 calls were made: the counter equals the number of calls, the
\* identifiers fetch_add handed out are pairwise distinct, and so are the
\* identifiers held by callers and by the calls they were given.
C11_ConcurrentIdsDistinct ==
    BelowWrap(issued) =>
        /\ request_id = Total(issued)
        /\ \A j, k \in DOMAIN issued :
              j < k => (~Covers(issued[j], issued[k].id) /\ ~Covers(issued[k], issued[j].id))
        /\ \A t, u \in Callers :
              (t # u /\ inflight[t].some /\ inflight[u].some)
                  => inflight[t].id # inflight[u].id
        /\ \A j, k \in DOMAIN pending :
              (j # k /\ pending[j].id.some /\ pending[k].id.some)
                  => pending[j].id # pending[k].id
        /\ \A t \in Callers, k \in DOMAIN pending :
              (inflight[t].some /\ pending[k].id.some) => pending[k].id.n # inflight[t].id

\* two callers are inside request() at once; the second caller did its
\* fetch_add first
C11_Witness ==
    /\ BelowWrap(issued)
    /\ inflight[1] = InRequest(U32Small(1), "test")
    /\ inflight[2] = InRequest(U32Small(0), "test")
    /\ request_id = U32Small(2)

\* C15: the counter is zero at construction and always equals the number of
\* request() calls made so far modulo 2^32; the k-th request() call gets the
\* identifier (k-1) mod 2^32 and puts it in its payload, also across the wrap
\* from 2^32-1 to 0; request0 leaves the counter unchanged.
C15_CounterCountsRequests ==
    /\ [](/\ request_id = CounterAfter(issued)
          /\ \A k \in DOMAIN issued :
                issued[k].id = CounterAfter(SubSeq(issued, 1, k - 1))
          /\ \A t \in Callers :
                inflight[t].some
                    => \E k \in DOMAIN issued : Covers(issued[k], inflight[t].id)
          /\ \A j \in DOMAIN pending :
                pending[j].id.some
                    => /\ \E k \in DOMAIN issued : Covers(issued[k], pending[j].id.n)
                       /\ pending[j].payload # EmptyPayload
                            => IdField(canonical, pending[j].payload)
                                 = NumId(pending[j].id.n)
          /\ last.op = "request"
                => \E k \in DOMAIN issued : Covers(issued[k], last.id))
    /\ [][(last'.op = "request0" /\ last' # last) => request_id' = request_id]_vars

\* the call after the one that got 2^32-1 got 0, and succeeded
C15_Witness ==
    /\ \E k \in DOMAIN issued :
          /\ k + 1 \in DOMAIN issued
          /\ issued[k].id = U32(Limb - 1, Limb - 1)
          /\ issued[k + 1].id = U32Small(0)
    /\ last.op = "request" /\ last.ok /\ last.id = U32Small(0)
    /\ \E j \in DOMAIN pending : pending[j].id = SomeU32(U32Small(0))
    /\ request_id = U32Small(1)

---------------------------------------------------------------------------
(* Further properties of the dispatcher *)

\* C12: when the first D::pack of a response fails, the output is the packed
\* response with the same id and the outcome InternalError with the packer's
\* error text; when the second D::pack fails too there is no output.  This
\* holds for a response made from a handler result and for one made by the
\* recovery parse.
C12_EncodeFailureReplaced ==
    (Dispatched /\ last.response.some)
        => /\ last.fault = 1 =>
                /\ last.out.some
                /\ IdField(canonical, last.out.doc) = last.response.id
                /\ last.out.doc.result = "absent"
                /\ last.out.doc.error = ErrObj(RPC_ERROR_INTERNAL_ERROR, SomeStr(E_PACK))
                /\ UnpackResponse(canonical, last.out.doc).ok
                /\ UnpackResponse(canonical, last.out.doc).id = last.response.id
                /\ UnpackResponse(canonical, last.out.doc).body
                     = Err(RpcError(Kind("InternalError"), SomeStr(E_PACK)))
           /\ last.fault = 2 => ~last.out.some

\* the error response of the recovery parse could not be packed
C12_Witness ==
    /\ Dispatched /\ ~last.request.ok /\ last.response.some
    /\ last.response.handler_response.err.kind = Kind("MethodNotFound")
    /\ last.fault = 1 /\ last.out.some
    /\ last.out.doc.error = ErrObj(RPC_ERROR_INTERNAL_ERROR, SomeStr(E_PACK))

ReservedCodes ==
    {RPC_ERROR_PARSE_ERROR, RPC_ERROR_INVALID_REQUEST, RPC_ERROR_METHOD_NOT_FOUND,
     RPC_ERROR_INVALID_PARAMS, RPC_ERROR_INTERNAL_ERROR}

\* C13: for the five reserved kinds and for Custom(c) with c not a reserved
\* code, the kind converted to i16 and back is the same kind.
C13_KindRoundTrip ==
    (/\ last.op = "convert_kind"
     /\ \/ last.kind \in ReservedKinds
        \/ last.kind.k = "Custom" /\ last.kind.c \notin ReservedCodes)
        => last.back = last.kind

C13_Witness ==
    /\ last.op = "convert_kind"
    /\ last.kind = Kind("MethodNotFound")
    /\ last.code = RPC_ERROR_METHOD_NOT_FOUND
    /\ last.back = Kind("MethodNotFound")

\* C14 as stated: a payload that decodes as a Request and carries a string, a
\* number or null as its identifier gets a response with that identifier, and
\* the output carries it.
C14_ScalarIdEchoed ==
    (/\ Dispatched /\ last.request.ok
     /\ IdField(canonical, last.payload).t \in {"str", "num", "null"})
        => /\ last.response.some
           /\ last.response.id = IdField(canonical, last.payload)
           /\ last.fault = 0 =>
                /\ last.out.some
                /\ IdField(canonical, last.out.doc) = IdField(canonical, last.payload)

\* C17 as stated: a payload that does not decode as a Request, that the
\* recovery parse can decode, and that carries its identifier under the key i
\* gets an error response with that identifier.
C17_ShortNameRecovered ==
    (/\ Dispatched /\ ~last.request.ok
     /\ last.payload.shape = "object"
     /\ last.payload.jsonrpc \notin {"num"} \cup EscapedStrings
     /\ last.payload.id.t = "absent"
     /\ last.payload.i.t \notin {"absent", "null"})
        => /\ last.response.some
           /\ last.response.id = last.payload.i
           /\ last.response.handler_response.t = "Err"
           /\ last.fault = 0 => last.out.some

\* C18: one invocation of handle_request_payload calls the handler exactly
\* once, with the request's method, when the payload decodes as a Request
\* (with or without identifier), and not at all when it does not.
C18_HandlerCalledOncePerRequest ==
    Dispatched
        => /\ last.request.ok => last.calls = <<last.payload.method>>
           /\ ~last.request.ok => last.calls = <<>>
           /\ UnpackRequest(canonical, last.payload).ok = last.request.ok

\* a request without identifier: the handler ran, nothing came out
C18_Witness ==
    /\ Dispatched /\ last.request.ok /\ last.request.id = NoneId
    /\ last.hres = Ok("v1")
    /\ last.calls = <<"test">>
    /\ ~last.response.some /\ ~last.out.some

---------------------------------------------------------------------------
(* End to end *)

\* a pending call made by request() is given the output of the dispatcher for
\* the payload of a pending call made by request()
ServedCall ==
    /\ Resolved /\ last.served.some /\ last.call.id.some
    /\ \E j \in DOMAIN pending, method \in Methods :
          /\ pending[j].id.some
          /\ last.served.payload
               = PackRequest(canonical, Request_new(NumId(pending[j].id.n), method))

\* the call that is given the response is the one whose payload was served
\* (its payload may have been taken since)
OwnResponse ==
    IdField(canonical, last.served.payload) = NumId(last.call.id.n)

\* the kind a handler's kind arrives as: Custom of a reserved code arrives as
\* the reserved kind of that code
ArrivesAs(kind) ==
    IF kind.k = "Custom" /\ kind.c \in ReservedCodes
    THEN CHOOSE r \in ReservedKinds : KindToI16(r) = kind.c
    ELSE kind

\* C16 as stated: the call whose payload was served gets exactly the
\* handler's result; any other call fails with InvalidRequest.
C16_ExactResultAsStated ==
    ServedCall
        => IF OwnResponse
           THEN last.result = ResultFromHandlerResponse(last.served.hres)
           ELSE last.result.t = "Err" /\ last.result.err.kind = Kind("InvalidRequest")

\* C16, amended: the call whose payload was served gets the handler's Ok
\* value, or Err with the handler's message and the handler's kind, where
\* Custom of a reserved code arrives as the reserved kind; when the
\* dispatcher's first D::pack of the response failed it gets Err with kind
\* InternalError and the packer's error text instead; any other call fails
\* with InvalidRequest.
C16_EndToEndCorrelation ==
    ServedCall
        => IF OwnResponse
           THEN IF last.served.fault # 0
                THEN last.result = Err(RpcError(Kind("InternalError"), SomeStr(E_PACK)))
                ELSE IF last.served.hres.t = "Ok"
                THEN last.result = Ok(last.served.hres.value)
                ELSE last.result
                       = Err(RpcError(ArrivesAs(last.served.hres.err.kind),
                                      last.served.hres.err.message))
           ELSE last.result = Err(RpcError(Kind("InvalidRequest"), SomeStr(ERR_ID_MISMATCH)))

\* the second of two pending calls gets its handler's error back
C16_Witness ==
    /\ ServedCall /\ Len(pending) = 2
    /\ pending[1].id.some
    /\ last.call = pending[2]
    /\ last.served.payload = pending[2].payload
    /\ last.served.fault = 0
    /\ last.served.hres = Err(RpcError(Custom(-32000), SomeStr("X")))
    /\ last.result = Err(RpcError(Custom(-32000), SomeStr("X")))

\* the dispatcher's first pack failed for a call whose handler returned Ok:
\* the call gets the InternalError substitute
C16_PackFailureArrives ==
    /\ ServedCall /\ OwnResponse
    /\ last.served.fault = 1
    /\ last.served.hres = Ok("v1")
    /\ last.result = Err(RpcError(Kind("InternalError"), SomeStr(E_PACK)))

===========================================================================
